---- MODULE Spec2Model ----
(***************************************************************************)
(* Model of ai-ds-coder-cli-v1.py: a command line driver that loads a CSV  *)
(* dataset, builds a prompt, asks a chat model for a completion and, for   *)
(* the train and eda commands, runs the completion in a Python REPL.       *)
(*                                                                         *)
(* Every text (a path, an input line, a prompt, a completion, a printed    *)
(* line, an exception message) is a sequence of strings; concatenation     *)
(* and f-string interpolation are \o.  Paths and input lines are           *)
(* sequences of one-character strings so that str.lower and               *)
(* os.path.splitext can be computed character by character.                *)
(***************************************************************************)
EXTENDS Integers, Sequences, FiniteSets, TLC

VARIABLES
    command,       \* args.command
    args,          \* the parsed arguments: file, task, model, target, plot
    pc,            \* position of the single thread of control
    query,         \* the local `query` of the running function
    data,          \* the local `data` of train_model_with_llm / generate_eda_with_llm
    response,      \* the local `response` (return value of chat_with_llm)
    lines,         \* the lines input() has returned so far
    output,        \* everything print() has written, one entry per call
    sent,          \* the message lists handed to llm.invoke, in order
    returned,      \* the response.content of every llm.invoke that returned
    executed,      \* the texts handed to PythonREPL.run, in order
    ran,           \* the texts PythonREPL.run handed to exec(), in order
    loaderCalls,   \* number of load_data calls
    gatewayCalls,  \* number of llm.invoke calls
    sandboxCalls,  \* number of get_python_repl calls
    dispatches,    \* number of branches of main() taken
    failed,        \* the components that have raised an exception
    exc            \* the exception that left main(), if any

vars == <<command, args, pc, query, data, response, lines, output, sent,
          returned, executed, ran, loaderCalls, gatewayCalls, sandboxCalls,
          dispatches, failed, exc>>

(***************************************************************************)
(* Bounds of the model.                                                    *)
(***************************************************************************)
\* Number of lines an interactive session reads before the model stops it.
MaxTurns == 3

(***************************************************************************)
(* Texts.                                                                  *)
(***************************************************************************)
Upper == <<"A","B","C","D","E","F","G","H","I","J","K","L","M",
           "N","O","P","Q","R","S","T","U","V","W","X","Y","Z">>
LowerCase == <<"a","b","c","d","e","f","g","h","i","j","k","l","m",
               "n","o","p","q","r","s","t","u","v","w","x","y","z">>

\* The ASCII characters that have no case, the backtick excepted (a TLA+
\* string cannot hold it).
Uncased ==
    { "0", "1", "2", "3", "4", "5", "6", "7", "8", "9", " ", "!",
      "#", "$", "%", "&", "'", "(", ")", "*", "+", ",", "-", ".",
      "/", ":", ";", "<", "=", ">", "?", "@", "[", "]", "^", "_",
      "{", "|", "}", "~", "\"", "\\", "\n", "\t" }

\* str.lower() on one ASCII character: a capital maps to its small letter,
\* a small letter and a character without case to itself.  A character
\* outside ASCII is not part of the model.
LowerChar(c) ==
    CASE \E i \in 1..26 : Upper[i] = c ->
           LowerCase[CHOOSE i \in 1..26 : Upper[i] = c]
      [] \E i \in 1..26 : LowerCase[i] = c -> c
      [] c \in Uncased -> c

\* str.lower() on an ASCII text, character by character.
Lower(s) == [i \in 1..Len(s) |-> LowerChar(s[i])]

\* The literal "exit" of interactive_mode.
ExitKeyword == <<"e","x","i","t">>

\* "%d" of a small natural number, as the f-strings of load_data print it.
Str(n) == <<"0","1","2","3","4","5","6","7","8","9">>[n + 1]

(***************************************************************************)
(* The inputs: command lines, files, typed lines, model completions.       *)
(***************************************************************************)
\* d.csv, D.CSV, m.csv, e.csv, d.json, .csv and a.b/c
Paths == { <<"d", ".", "c", "s", "v">>,
           <<"D", ".", "C", "S", "V">>,
           <<"m", ".", "c", "s", "v">>,
           <<"e", ".", "c", "s", "v">>,
           <<"d", ".", "j", "s", "o", "n">>,
           <<".", "c", "s", "v">>,
           <<"a", ".", "b", "/", "c">> }

Tasks == {"preprocessing", "hyperparameter_tuning"}
Models == {"random_forest", "xgboost"}
Targets == {"y", "z"}
\* str(args.plot): --plot is optional and defaults to None
Plots == {"None", "all"}

\* What the user may type at the USER>> prompt.
Lines == { <<"e", "x", "i", "t">>,
           <<"E", "X", "I", "T">>,
           <<"E", "x", "i", "t">>,
           <<"e", "x", "i", "t", " ">>,
           <<"h", "i">>,
           <<>> }

\* What the model may answer (response.content).
Completions == { <<"print(1)">>, <<"1/0">>, <<"Here is the code">>,
                 <<"x=1">>, <<"raise SystemExit(3)">>, <<"python\nprint(1)">> }

\* An exception: its class, the classes it derives from (its own included)
\* and str(e).
Exception(type, bases, msg) ==
    [type |-> type, mro |-> {type} \cup bases \cup {"BaseException"}, msg |-> msg]

\* The exceptions llm.invoke may raise.
GatewayErrors ==
    { Exception("ConnectionError", {"OSError", "Exception"}, <<"connection refused">>) }

NoException == [type |-> "None", mro |-> {}, msg |-> <<>>]

\* Python's None where a DataFrame is expected.
None == [isNone |-> TRUE, columns |-> <<>>, rows |-> 0, repr |-> <<"None">>]

DataFrame(columns, rows, repr) ==
    [isNone |-> FALSE, columns |-> columns, rows |-> rows, repr |-> repr]

\* The arguments a command does not take.
NoArgs == [file |-> <<>>, task |-> "None", model |-> "None",
           target |-> "None", plot |-> "None"]

\* parse_args: the namespaces argparse can produce.
parse_args ==
    [command : {"interactive", "None"}, args : {NoArgs}]
    \cup { [command |-> "load", args |-> [NoArgs EXCEPT !.file = f]] : f \in Paths }
    \cup { [command |-> "suggest", args |-> [NoArgs EXCEPT !.task = t]] : t \in Tasks }
    \cup { [command |-> "train",
            args |-> [NoArgs EXCEPT !.file = f, !.model = m, !.target = t]] :
              f \in Paths, m \in Models, t \in Targets }
    \cup { [command |-> "eda", args |-> [NoArgs EXCEPT !.file = f, !.plot = p]] :
              f \in Paths, p \in Plots }

(***************************************************************************)
(* The Dataset Loader.                                                     *)
(***************************************************************************)
\* str.rfind, 1-based; 0 when the character does not occur.
RFind(p, c) ==
    IF \E i \in 1..Len(p) : p[i] = c
    THEN CHOOSE i \in 1..Len(p) : p[i] = c /\ \A j \in (i+1)..Len(p) : p[j] # c
    ELSE 0

\* os.path.splitext(p)[1]: the text from the last dot of the last path
\* component, unless only dots precede it in that component.
splitext(p) ==
    LET sepIndex == RFind(p, "/")
        dotIndex == RFind(p, ".")
    IN  IF /\ dotIndex > sepIndex
           /\ \E k \in (sepIndex + 1)..(dotIndex - 1) : p[k] # "."
        THEN SubSeq(p, dotIndex, Len(p))
        ELSE <<>>

\* The paths of the model that name a directory.
Directories == { <<".">>, <<".", ".">>, <<"/">> }

\* The paths of the model that name nothing: m.csv, d.json, .csv, a.b/c.
NoSuchFile == { <<"m", ".", "c", "s", "v">>,
                <<"d", ".", "j", "s", "o", "n">>,
                <<".", "c", "s", "v">>,
                <<"a", ".", "b", "/", "c">> }

\* pd.read_csv on the file system of the model, path by path: d.csv and
\* D.CSV parse, e.csv is empty, ".", ".." and "/" are directories, the
\* paths of NoSuchFile name nothing.  No other spelling of a path (./d.csv)
\* is part of the model.
read_csv(file_path) ==
    CASE file_path = <<"d", ".", "c", "s", "v">> ->
           [raised |-> FALSE, exc |-> NoException,
            data |-> DataFrame(<<"a", "b", "y">>, 5, <<"DataFrame(a,b,y)[5x3]">>)]
      [] file_path = <<"D", ".", "C", "S", "V">> ->
           [raised |-> FALSE, exc |-> NoException,
            data |-> DataFrame(<<"a">>, 1, <<"DataFrame(a)[1x1]">>)]
      [] file_path = <<"e", ".", "c", "s", "v">> ->
           [raised |-> TRUE, data |-> None,
            exc |-> Exception("EmptyDataError", {"ValueError", "Exception"},
                              <<"No columns to parse from file">>)]
      [] file_path \in Directories ->
           [raised |-> TRUE, data |-> None,
            exc |-> Exception("IsADirectoryError", {"OSError", "Exception"},
                              <<"[Errno 21] Is a directory: '">>
                              \o file_path \o <<"'">>)]
      [] file_path \in NoSuchFile ->
           [raised |-> TRUE, data |-> None,
            exc |-> Exception("FileNotFoundError", {"OSError", "Exception"},
                              <<"[Errno 2] No such file or directory: '">>
                              \o file_path \o <<"'">>)]

\* load_data(file_path): what it prints, whether it raises, what it returns.
load_data(file_path) ==
    LET ext == Lower(splitext(file_path))
        banner == <<"Loading data from ">> \o file_path \o <<"...">>
        r == read_csv(file_path)
    IN  IF ext = <<".", "c", "s", "v">>
        THEN IF r.raised
             THEN [prints |-> <<banner>>, raised |-> TRUE, exc |-> r.exc,
                   data |-> None]
             ELSE [prints |-> <<banner,
                                <<"Loaded ", Str(r.data.rows), " rows and ",
                                  Str(Len(r.data.columns)), " columns.">> >>,
                   raised |-> FALSE, exc |-> NoException, data |-> r.data]
        ELSE [prints |-> <<banner, <<"Unsupported file type: ">> \o ext>>,
              raised |-> FALSE, exc |-> NoException, data |-> None]

(***************************************************************************)
(* The Model Gateway.                                                      *)
(***************************************************************************)
\* The content of the SystemMessage of chat_with_llm.  The literal is not
\* an f-string: its last line is the seven characters {query}.
SystemContent ==
    <<"You are an assistant for question-answering tasks. ",
      "Use the following pieces of retrieved context to answer the question.\n",
      "If you don't know the answer, say that you don't know. \n",
      "Use three sentences maximum and keep the answer concise. ",
      "You are also a coding assistant with retrieved context \n",
      "\n\n",
      "{query}">>

SystemMessage(content) == [role |-> "system", content |-> content]
HumanMessage(content) == [role |-> "human", content |-> content]

\* Variant of messages: the system literal as an f-string, {query} replaced.
messages_fstring(q) ==
    <<SystemMessage(SubSeq(SystemContent, 1, 6) \o q), HumanMessage(q)>>

\* The list `messages` chat_with_llm builds for `query`.
messages(q) == <<SystemMessage(SystemContent), HumanMessage(q)>>

\* Variant of chat_with_llm_return: the printed text is returned.
chat_with_llm_return_printed(content) == <<"LLM Response:\n">> \o content

\* The value chat_with_llm returns for a response whose content is `content`.
chat_with_llm_return(content) == content

\* What chat_with_llm prints for that response.
chat_with_llm_print(content) == <<"LLM Response:\n">> \o content

(***************************************************************************)
(* The Sandbox.                                                            *)
(***************************************************************************)
\* PythonREPL.sanitize_input on the completions of the model, text by
\* text: leading whitespace, backticks and the word python, and trailing
\* whitespace and backticks are removed.  Only python\nprint(1) has any.
\* No other text is part of the model.
sanitize_input(text) ==
    CASE text = <<"python\nprint(1)">> -> <<"print(1)">>
      [] text \in { <<"print(1)">>, <<"x=1">>, <<"1/0">>, <<"Here is the code">>,
                    <<"raise SystemExit(3)">> } -> text

\* exec() on the scripts of the model, script by script: the captured
\* standard output, or the exception the script raises.  No other text is
\* part of the model.
exec_script(text) ==
    CASE text = <<"print(1)">> ->
           [error |-> FALSE, exc |-> NoException, stdout |-> <<"1\n">>,
            repr |-> <<>>]
      [] text = <<"python\nprint(1)">> ->
           [error |-> TRUE, stdout |-> <<>>,
            exc |-> Exception("NameError", {"Exception"},
                              <<"name 'python' is not defined">>),
            repr |-> <<"NameError(\"name 'python' is not defined\")">>]
      [] text = <<"x=1">> ->
           [error |-> FALSE, exc |-> NoException, stdout |-> <<>>,
            repr |-> <<>>]
      [] text = <<"1/0">> ->
           [error |-> TRUE, stdout |-> <<>>,
            exc |-> Exception("ZeroDivisionError", {"ArithmeticError", "Exception"},
                              <<"division by zero">>),
            repr |-> <<"ZeroDivisionError('division by zero')">>]
      [] text = <<"Here is the code">> ->
           [error |-> TRUE, stdout |-> <<>>,
            exc |-> Exception("SyntaxError", {"Exception"},
                              <<"invalid syntax (<string>, line 1)">>),
            repr |-> <<"SyntaxError('invalid syntax', ('<string>', 1, 13, 'Here is the code\\n', 1, 17))">>]
      [] text = <<"raise SystemExit(3)">> ->
           [error |-> TRUE, stdout |-> <<>>,
            exc |-> Exception("SystemExit", {}, <<"3">>),
            repr |-> <<"SystemExit(3)">>]

\* `except Exception` catches `e`: the class of `e` derives from Exception.
is_Exception(e) == "Exception" \in e.mro

\* PythonREPL().run(text): exec() of the sanitized text; the captured
\* output of the script; when the script raises an Exception, repr() of it
\* as an ordinary return value; any other exception propagates.
PythonREPL_run(text) ==
    LET r == exec_script(sanitize_input(text))
    IN  IF r.error /\ ~is_Exception(r.exc)
        THEN [raised |-> TRUE, exc |-> r.exc, value |-> <<>>]
        ELSE [raised |-> FALSE, exc |-> NoException,
              value |-> IF r.error THEN r.repr ELSE r.stdout]

(***************************************************************************)
(* The Prompt Builder: the f-strings and literals bound to `query`.        *)
(***************************************************************************)
\* No other task binds `query`; --task admits these two only.
suggest_query(task) ==
    CASE task = "preprocessing" ->
           <<"Suggest the best preprocessing steps for a CSV dataset.">>
      [] task = "hyperparameter_tuning" ->
           <<"Suggest hyperparameter tuning steps for a llama 3.2 model.">>

train_query(model_name, d, target) ==
    <<"Create python code to train a ", model_name, " model using the ">>
    \o d.repr
    \o <<" from dataset with the target variable '", target,
         "'. Provide the code only.">>

eda_query(d, plot_type) ==
    <<"Generate an EDA report for the ">> \o d.repr
    \o <<" of dataset. Include ", plot_type, " plots if applicable.">>

(***************************************************************************)
(* The conditions and the control flow of the Session Loop.                *)
(***************************************************************************)
\* Variant of is_exit: the comparison without lower().
is_exit_case_sensitive(q) == q = ExitKeyword

\* query.lower() == "exit"
is_exit(q) == Lower(q) = ExitKeyword

\* `data is None` in train_model_with_llm
train_data_is_none(d) == d.isNone

\* Variant of eda_data_loaded: the check left out.
eda_data_unchecked(d) == TRUE

\* `data is not None` in generate_eda_with_llm
eda_data_loaded(d) == ~d.isNone

\* Variant of target_in_columns: the check left out.
target_unchecked(target, d) == TRUE

\* `target in data.columns`
target_in_columns(target, d) == \E i \in 1..Len(d.columns) : d.columns[i] = target

\* Variant of handler: the load branch calls generate_eda_with_llm.
handler_load_runs_eda(cmd) ==
    CASE cmd = "interactive" -> "interactive_mode"
      [] cmd = "load" -> "generate_eda_with_llm"
      [] cmd = "suggest" -> "suggest_task"
      [] cmd = "train" -> "train_model_with_llm"
      [] cmd = "eda" -> "generate_eda_with_llm"
      [] OTHER -> "invalid"

\* The function the if/elif chain of main() calls for args.command.
handler(cmd) ==
    CASE cmd = "interactive" -> "interactive_mode"
      [] cmd = "load" -> "load_data"
      [] cmd = "suggest" -> "suggest_task"
      [] cmd = "train" -> "train_model_with_llm"
      [] cmd = "eda" -> "generate_eda_with_llm"
      [] OTHER -> "invalid"

\* Variant of after_chat: suggest_task passes the reply to get_python_repl.
after_chat_suggest_runs(h) ==
    CASE h = "interactive_mode" -> "input"
      [] h = "suggest_task" -> "repl"
      [] h = "train_model_with_llm" -> "repl"
      [] h = "generate_eda_with_llm" -> "repl"
      [] OTHER -> "done"

\* Where control goes when chat_with_llm returns to the function `h`.
after_chat(h) ==
    CASE h = "interactive_mode" -> "input"
      [] h = "suggest_task" -> "done"
      [] h = "train_model_with_llm" -> "repl"
      [] h = "generate_eda_with_llm" -> "repl"
      [] OTHER -> "done"

\* Whether an exception raised inside the function `h` meets an enclosing
\* try/except: only train_model_with_llm has one (except Exception, which
\* is_Exception decides).
in_try(h) == h = "train_model_with_llm"

\* The handler of train_model_with_llm: what `except Exception as e` prints.
train_except_print(e) == <<"Error during model training: ">> \o e.msg

ValueError(msg) == Exception("ValueError", {"Exception"}, msg)

(***************************************************************************)
(* The state machine.                                                      *)
(***************************************************************************)
\* The state when main() has parsed the command line.
Init ==
    /\ \E ns \in parse_args : command = ns.command /\ args = ns.args
    /\ pc = "main"
    /\ query = <<>>
    /\ data = None
    /\ response = <<>>
    /\ lines = <<>>
    /\ output = <<>>
    /\ sent = <<>>
    /\ returned = <<>>
    /\ executed = <<>>
    /\ ran = <<>>
    /\ loaderCalls = 0
    /\ gatewayCalls = 0
    /\ sandboxCalls = 0
    /\ dispatches = 0
    /\ failed = {}
    /\ exc = NoException

\* chat_with_llm(q) up to the call of llm.invoke(messages).
chat_with_llm_call(q) ==
    /\ query' = q
    /\ sent' = Append(sent, messages(q))
    /\ gatewayCalls' = gatewayCalls + 1
    /\ pc' = "invoke"

\* An exception `e` raised by `component` inside the function `h`: caught
\* and printed by the `except Exception` of `h` if it has one and `e` is an
\* Exception, else it leaves main().
\* `printed` is what was printed before the exception was raised.
raise(h, component, e, printed) ==
    /\ failed' = failed \cup {component}
    /\ IF in_try(h) /\ is_Exception(e)
       THEN /\ output' = output \o printed \o <<train_except_print(e)>>
            /\ pc' = "done"
            /\ exc' = NoException
       ELSE /\ output' = output \o printed
            /\ pc' = "crashed"
            /\ exc' = e

\* main() -> interactive_mode(): the banner, query = "".
interactive_mode ==
    /\ pc = "main"
    /\ handler(command) = "interactive_mode"
    /\ dispatches' = dispatches + 1
    /\ output' = output \o << <<"=======================================================================">>,
                              <<"Starting Interactive Session with LLM">>,
                              <<"=======================================================================">> >>
    /\ query' = <<>>
    /\ pc' = "input"
    /\ UNCHANGED <<command, args, data, response, lines, sent, returned,
                   executed, ran, loaderCalls, gatewayCalls, sandboxCalls, failed, exc>>

\* One pass of the while loop of interactive_mode in which input() returns
\* `line`: break on the exit keyword, else chat_with_llm(line).
interactive_mode_input ==
    /\ pc = "input"
    /\ ~is_exit(query)
    /\ Len(lines) < MaxTurns
    /\ \E line \in Lines :
         /\ lines' = Append(lines, line)
         /\ IF is_exit(line)
            THEN /\ query' = line
                 /\ pc' = "done"
                 /\ UNCHANGED <<sent, gatewayCalls>>
            ELSE chat_with_llm_call(line)
    /\ UNCHANGED <<command, args, data, response, output, returned, executed, ran,
                   loaderCalls, sandboxCalls, dispatches, failed, exc>>

\* One pass of the while loop in which input() raises EOFError (the input
\* stream has ended); nothing catches it.
interactive_mode_eof ==
    /\ pc = "input"
    /\ ~is_exit(query)
    /\ raise(handler(command), "Input",
             Exception("EOFError", {"Exception"}, <<"EOF when reading a line">>),
             <<>>)
    /\ UNCHANGED <<command, args, query, data, response, lines, sent, returned,
                   executed, ran, loaderCalls, gatewayCalls, sandboxCalls, dispatches>>

\* main() -> load_data(args.file)
main_load_data ==
    /\ pc = "main"
    /\ handler(command) = "load_data"
    /\ dispatches' = dispatches + 1
    /\ loaderCalls' = loaderCalls + 1
    /\ LET r == load_data(args.file)
       IN  IF r.raised
           THEN raise(handler(command), "Loader", r.exc, r.prints)
           ELSE /\ output' = output \o r.prints
                /\ pc' = "done"
                /\ UNCHANGED <<failed, exc>>
    /\ UNCHANGED <<command, args, query, data, response, lines, sent, returned,
                   executed, ran, gatewayCalls, sandboxCalls>>

\* main() -> suggest_task(args.task), up to llm.invoke
suggest_task ==
    /\ pc = "main"
    /\ handler(command) = "suggest_task"
    /\ dispatches' = dispatches + 1
    /\ chat_with_llm_call(suggest_query(args.task))
    /\ UNCHANGED <<command, args, data, response, lines, output, returned,
                   executed, ran, loaderCalls, sandboxCalls, failed, exc>>

\* main() -> train_model_with_llm(args.model, args.file, args.target), up
\* to llm.invoke or to the end of the except clause.
train_model_with_llm ==
    /\ pc = "main"
    /\ handler(command) = "train_model_with_llm"
    /\ dispatches' = dispatches + 1
    /\ loaderCalls' = loaderCalls + 1
    /\ LET h == handler(command)
           r == load_data(args.file)
       IN  IF r.raised
           THEN /\ raise(h, "Loader", r.exc, r.prints)
                /\ UNCHANGED <<query, data, sent, gatewayCalls>>
           ELSE /\ data' = r.data
                /\ IF train_data_is_none(r.data)
                   THEN /\ raise(h, "Loader", ValueError(<<"Data loading failed">>),
                                 r.prints)
                        /\ UNCHANGED <<query, sent, gatewayCalls>>
                   ELSE IF ~target_in_columns(args.target, r.data)
                   THEN /\ raise(h, "Validation",
                                 ValueError(<<"Target column '", args.target,
                                              "' not found in the dataset">>),
                                 r.prints)
                        /\ UNCHANGED <<query, sent, gatewayCalls>>
                   ELSE /\ output' = output \o r.prints
                        /\ chat_with_llm_call(
                             train_query(args.model, r.data, args.target))
                        /\ UNCHANGED <<failed, exc>>
    /\ UNCHANGED <<command, args, response, lines, returned, executed, ran,
                   sandboxCalls>>

\* main() -> generate_eda_with_llm(args.file, args.plot), up to llm.invoke
\* or to the else branch.
generate_eda_with_llm ==
    /\ pc = "main"
    /\ handler(command) = "generate_eda_with_llm"
    /\ dispatches' = dispatches + 1
    /\ loaderCalls' = loaderCalls + 1
    /\ LET h == handler(command)
           r == load_data(args.file)
       IN  IF r.raised
           THEN /\ raise(h, "Loader", r.exc, r.prints)
                /\ UNCHANGED <<query, data, sent, gatewayCalls>>
           ELSE /\ data' = r.data
                /\ UNCHANGED <<failed, exc>>
                /\ IF eda_data_loaded(r.data)
                   THEN /\ output' = output \o r.prints
                        /\ chat_with_llm_call(eda_query(r.data, args.plot))
                   ELSE /\ output' = output \o r.prints
                                     \o << <<"Failed to load data for EDA">> >>
                        /\ pc' = "done"
                        /\ UNCHANGED <<query, sent, gatewayCalls>>
    /\ UNCHANGED <<command, args, response, lines, returned, executed, ran,
                   sandboxCalls>>

\* main(): the final else
main_invalid ==
    /\ pc = "main"
    /\ handler(command) = "invalid"
    /\ dispatches' = dispatches + 1
    /\ output' = Append(output, <<"Invalid command. Use --help for available commands.">>)
    /\ pc' = "done"
    /\ UNCHANGED <<command, args, query, data, response, lines, sent, returned,
                   executed, ran, loaderCalls, gatewayCalls, sandboxCalls, failed, exc>>

\* llm.invoke(messages) returns: chat_with_llm prints the content and
\* returns it to its caller.
llm_invoke_return ==
    /\ pc = "invoke"
    /\ \E content \in Completions :
         /\ returned' = Append(returned, content)
         /\ output' = Append(output, chat_with_llm_print(content))
         /\ response' = chat_with_llm_return(content)
    /\ pc' = after_chat(handler(command))
    /\ UNCHANGED <<command, args, query, data, lines, sent, executed, ran,
                   loaderCalls, gatewayCalls, sandboxCalls, dispatches, failed, exc>>

\* llm.invoke(messages) raises.
llm_invoke_raise ==
    /\ pc = "invoke"
    /\ \E e \in GatewayErrors : raise(handler(command), "Gateway", e, <<>>)
    /\ UNCHANGED <<command, args, query, data, response, lines, sent, returned,
                   executed, ran, loaderCalls, gatewayCalls, sandboxCalls, dispatches>>

\* get_python_repl(response): run the text, print the result.
get_python_repl ==
    /\ pc = "repl"
    /\ sandboxCalls' = sandboxCalls + 1
    /\ executed' = Append(executed, response)
    /\ ran' = Append(ran, sanitize_input(response))
    /\ LET r == PythonREPL_run(response)
       IN  IF r.raised
           THEN raise(handler(command), "Sandbox", r.exc, <<>>)
           ELSE /\ output' = Append(output, r.value)
                /\ pc' = "done"
                /\ UNCHANGED <<failed, exc>>
    /\ UNCHANGED <<command, args, query, data, response, lines, sent, returned,
                   loaderCalls, gatewayCalls, dispatches>>

Next ==
    \/ interactive_mode
    \/ interactive_mode_input
    \/ interactive_mode_eof
    \/ main_load_data
    \/ suggest_task
    \/ train_model_with_llm
    \/ generate_eda_with_llm
    \/ main_invalid
    \/ llm_invoke_return
    \/ llm_invoke_raise
    \/ get_python_repl

Spec == Init /\ [][Next]_vars

TypeOK ==
    /\ pc \in {"main", "input", "invoke", "repl", "done", "crashed"}
    /\ loaderCalls \in Nat /\ gatewayCalls \in Nat /\ sandboxCalls \in Nat
    /\ Len(sent) = gatewayCalls
    /\ Len(executed) = sandboxCalls
    /\ Len(ran) = sandboxCalls

(***************************************************************************)
(* Properties.                                                             *)
(***************************************************************************)
Last(seq) == seq[Len(seq)]

\* The Loader fails on `file_path`: load_data raises or returns None.
LoaderFails(file_path) ==
    load_data(file_path).raised \/ load_data(file_path).data.isNone

SingleShot == {"load", "suggest", "train", "eda"}

\* C1: a train or eda dispatch whose load_data call fails (returns None
\* for an unsupported extension, or raises) makes no llm.invoke call.
C1_NoGatewayWhenLoaderFails ==
    (/\ command \in {"train", "eda"}
     /\ loaderCalls >= 1
     /\ LoaderFails(args.file))
    => gatewayCalls = 0 /\ sent = <<>>

C1_Witness ==
    /\ command = "eda"
    /\ args.file = <<"d", ".", "j", "s", "o", "n">>
    /\ loaderCalls = 1
    /\ pc = "done"
    /\ gatewayCalls = 0
    /\ Last(output) = <<"Failed to load data for EDA">>

\* C2: a train dispatch whose dataset loaded but whose target is not one of
\* its columns ends with the printed target-not-found diagnostic, and makes
\* neither an llm.invoke call nor a get_python_repl call.
C2_TargetNotFound ==
    (/\ command = "train"
     /\ loaderCalls >= 1
     /\ ~LoaderFails(args.file)
     /\ \A i \in 1..Len(data.columns) : data.columns[i] # args.target)
    => /\ pc = "done"
       /\ exc = NoException
       /\ Last(output) = <<"Error during model training: ", "Target column '",
                           args.target, "' not found in the dataset">>
       /\ gatewayCalls = 0
       /\ sandboxCalls = 0

C2_Witness ==
    /\ command = "train"
    /\ args.file = <<"d", ".", "c", "s", "v">>
    /\ args.target = "z"
    /\ ~data.isNone
    /\ pc = "done"
    /\ "Validation" \in failed
    /\ gatewayCalls = 0

\* C3: no failure of the Loader, the Gateway or the Sandbox during a train
\* or an eda dispatch leaves train_model_with_llm / generate_eda_with_llm:
\* the process never ends with an exception out of main().
C3_FailuresContained ==
    command \in {"train", "eda"} => pc # "crashed" /\ exc = NoException

\* C4: an llm.invoke failure during an interactive turn or a suggest
\* dispatch is caught: the exception never leaves main(), the interactive
\* loop is back at input() and the suggest run is at its normal end.
C4_GatewayFailureCaught ==
    (command \in {"interactive", "suggest"} /\ "Gateway" \in failed)
    => /\ exc \notin GatewayErrors
       /\ pc \in {"input", "invoke", "done"}

\* C5: in interactive mode, while every llm.invoke returns and input()
\* delivers lines, the loop ends at the first line that lower-cases to
\* "exit"; llm.invoke is called once for each earlier line, with that line,
\* and not for the exit line; after each earlier line's reply the loop is
\* back at input().
C5_InteractiveExit ==
    (command = "interactive" /\ failed = {} /\ pc # "main")
    => /\ \A i \in 1..(Len(lines) - 1) : Lower(lines[i]) # ExitKeyword
       /\ pc \in {"input", "invoke", "done"}
       /\ (pc = "done") <=> (lines # <<>> /\ Lower(Last(lines)) = ExitKeyword)
       /\ gatewayCalls = IF pc = "done" THEN Len(lines) - 1 ELSE Len(lines)
       /\ \A i \in 1..gatewayCalls : sent[i][2].content = lines[i]
       /\ (pc = "invoke") => Len(returned) = gatewayCalls - 1
       /\ (pc \in {"input", "done"}) => Len(returned) = gatewayCalls

C5_Witness ==
    /\ command = "interactive"
    /\ pc = "done"
    /\ lines = << <<"h", "i">>, <<"e", "x", "i", "t", " ">>, <<"E", "X", "I", "T">> >>
    /\ gatewayCalls = 2
    /\ Len(returned) = 2

\* C6: a single-shot run (load, suggest, train, eda) takes one branch of
\* main() and then stops; it calls load_data, llm.invoke and
\* get_python_repl at most once each, and a load run calls neither
\* llm.invoke nor get_python_repl.
C6_SingleShot ==
    command \in SingleShot
    => /\ dispatches <= 1
       /\ (pc # "main") => dispatches = 1
       /\ loaderCalls <= 1 /\ gatewayCalls <= 1 /\ sandboxCalls <= 1
       /\ (command = "load") => (gatewayCalls = 0 /\ sandboxCalls = 0)
       /\ (pc \in {"done", "crashed"}) => ~ENABLED Next

C6_Witness ==
    /\ command = "train"
    /\ pc = "done"
    /\ dispatches = 1
    /\ loaderCalls = 1 /\ gatewayCalls = 1 /\ sandboxCalls = 1

\* C7: whenever the text handed to get_python_repl raises on execution,
\* the REPL's result is the error's repr as an ordinary value, which is
\* printed; nothing is raised, and the dispatch reaches its normal end.
C7_SandboxReturnsFailure ==
    \A i \in 1..Len(ran) :
        exec_script(ran[i]).error
        => /\ "Sandbox" \notin failed
           /\ pc = "done"
           /\ exc = NoException
           /\ Last(output) = exec_script(ran[i]).repr

\* The user instruction of the i-th request of the run.
Instruction(i) ==
    CASE command = "interactive" -> lines[i]
      [] command = "suggest" -> suggest_query(args.task)
      [] command = "train" -> train_query(args.model, data, args.target)
      [] OTHER -> eda_query(data, args.plot)

\* C8: every message list handed to llm.invoke has exactly two messages:
\* the fixed system instruction, then the user instruction of the current
\* request; nothing of an earlier turn is in it.
C8_TwoMessages ==
    \A i \in 1..Len(sent) :
        /\ Len(sent[i]) = 2
        /\ sent[i][1] = [role |-> "system", content |-> SystemContent]
        /\ sent[i][2] = [role |-> "human", content |-> Instruction(i)]

C8_Witness ==
    /\ command = "interactive"
    /\ Len(sent) = 2
    /\ lines[1] = <<"h", "i">>
    /\ lines[2] = <<>>
    /\ sent[2][2].content = <<>>

C10_NoSandboxOutsideTrainEda ==
    command \notin {"train", "eda"} => sandboxCalls = 0 /\ executed = <<>>

C10_Witness ==
    /\ command = "interactive"
    /\ Len(returned) = 2
    /\ Last(output) = <<"LLM Response:\n", "1/0">>
    /\ sandboxCalls = 0

====
